---- MODULE Spec2Model ----
(***************************************************************************)
(* A model of the rqbit web UI (crates/librqbit/webui/src/index.tsx):      *)
(* the self-rescheduling timers customSetInterval and loopUntilSuccess,    *)
(* the registry poller of Root, the per-torrent trackers of Torrent, and   *)
(* the preview/confirm upload dialog of UploadButton and                   *)
(* FileSelectionModal.                                                     *)
(*                                                                         *)
(* Time is not measured: an armed timer may fire at any later moment and   *)
(* an outstanding request may resolve at any later moment, which covers    *)
(* every delay and every request duration.  The delay a timer was armed    *)
(* with is kept as data (currentInterval).                                 *)
(***************************************************************************)
EXTENDS Naturals, Sequences, FiniteSets, TLC

VARIABLES
    \* Root
    torrents,         \* useState torrents: NULL or a sequence of torrent ids
    torrentsLoading,  \* useState torrentsLoading
    otherError,       \* useState otherError: NULL or an error
    closeableError,   \* useState closeableError: NULL or an error
    reg,              \* the customSetInterval instance of Root's effect
    regLast,          \* outcome of the last completed list request
    \* Torrent components, one record per component instance ever mounted
    trk,
    \* UploadButton / FileSelectionModal
    data,             \* the payload (magnet or file): NULL or a payload
    fileList,         \* useState fileList: NULL or a manifest
    loading,          \* useState loading of UploadButton
    selectedFiles,    \* useState selectedFiles: a sequence of indices
    uploading,        \* useState uploading of FileSelectionModal
    uploadError,      \* useState uploadError
    previewTimer,     \* the setTimeout(…, 0) of the preview effect: NULL or its payload
    previews,         \* preview requests in flight: a bag kept as a sequence of payloads
    confirms,         \* confirm requests in flight: a sequence of [url, data]
    payloadsSet,      \* how many payloads the user has set so far
    previewLog,       \* history: the payloads a preview request was issued for, in order
    \* one call of makeRequest on its own
    call,             \* NULL or the call being made: [site, method, path, showError]
    result            \* NULL or what the last call settled as, with what fetch produced

pollVars == <<torrents, torrentsLoading, otherError, reg, regLast, trk>>
uploadVars == <<data, fileList, loading, selectedFiles, uploading, uploadError,
                previewTimer, previews, confirms, payloadsSet, previewLog>>
reqVars == <<call, result>>
vars == <<pollVars, closeableError, uploadVars, reqVars>>

\* A nullable value: NULL, or Some(v) holding v.
NULL == <<>>
Some(v) == <<v>>

----------------------------------------------------------------------------
(* Bounds *)

\* Torrent component instances mounted over a run.
MaxInst == 1
\* Invocations of one timer's callback that the model lets overlap.
MaxInflight == 2
\* Largest byte count in a stats snapshot.
MaxBytes == 1
\* Payloads the user sets over a run of the upload dialog; payload k is the k-th.
MaxPayloads == 2
\* Files in a manifest, in the upload dialog's whole workflow.
MaxManifest == 1
\* Files in a manifest, where only selection and confirm are exercised.
MaxFiles == 3
\* Confirm requests the model lets be outstanding together.
MaxConfirms == 1

----------------------------------------------------------------------------
(* customSetInterval: a timer that re-arms itself when its callback resolves *)

\* scheduleNext: timeoutId = setTimeout(executeCallback, currentInterval)
scheduleNext(s) == [s EXCEPT !.timer = TRUE]

customSetIntervalFixedDelay(interval) ==
    scheduleNext([timer |-> FALSE, inflight |-> 0, currentInterval |-> 500])
\* customSetInterval(asyncCallback, interval): currentInterval = interval; scheduleNext()
customSetInterval(interval) ==
    scheduleNext([timer |-> FALSE, inflight |-> 0, currentInterval |-> interval])

\* The timer fires: executeCallback runs up to its await of asyncCallback().
executeCallbackOverlapping(s) == [s EXCEPT !.timer = TRUE, !.inflight = @ + 1]
executeCallbackBegin(s) == [s EXCEPT !.timer = FALSE, !.inflight = @ + 1]

executeCallbackEndIdle(s, next) ==
    [s EXCEPT !.inflight = @ - 1, !.currentInterval = next]
\* asyncCallback() resolved with next: currentInterval = next; scheduleNext().
\* (Both callbacks of the program return a number on every path, so the throw on
\* a null or undefined value is never taken.)
executeCallbackEnd(s, next) ==
    scheduleNext([s EXCEPT !.inflight = @ - 1, !.currentInterval = next])

\* clearCustomInterval: clearTimeout(timeoutId)
clearCustomIntervalNoop(s) == s
clearCustomInterval(s) == [s EXCEPT !.timer = FALSE]

----------------------------------------------------------------------------
(* loopUntilSuccess: invoke at once, meant to retry after a fixed interval *)

\* The JavaScript values a promise handler of the loop can yield.
UNDEFINED == "undefined"
JSTrue == "true"
JSFalse == "false"

\* if (v): of these, only true is truthy.
truthy(v) == v = JSTrue

\* scheduleNext(i): timeoutId = setTimeout(executeCallback, i !== undefined ? i : interval)
loopScheduleNext(l) == [l EXCEPT !.timer = TRUE]

\* loopUntilSuccess(callback, interval): scheduleNext(0)
loopUntilSuccess == loopScheduleNext([timer |-> FALSE, inflight |-> 0])

\* The timer fires: executeCallback runs up to its await of callback().
loopExecuteCallbackBegin(l) == [l EXCEPT !.timer = FALSE, !.inflight = @ + 1]

\* callback().then(() => { false }, () => { true }): both handlers have a block
\* body with no return statement, so the awaited value is undefined either way.
retryValue(succeeded) == UNDEFINED

\* callback() settled: if (retry) scheduleNext()
loopExecuteCallbackEnd(l, succeeded) ==
    LET t == [l EXCEPT !.inflight = @ - 1]
    IN  IF truthy(retryValue(succeeded)) THEN loopScheduleNext(t) ELSE t

\* clearCustomInterval of loopUntilSuccess: clearTimeout(timeoutId)
loopClear(l) == [l EXCEPT !.timer = FALSE]

----------------------------------------------------------------------------
(* RequestClient: Root.makeRequest and the typed wrappers *)

\* What fetch can produce: a thrown transport failure, or a response.
Thrown == [kind |-> "throw"]
HttpError(status, statusText, body) ==
    [kind |-> "response", ok |-> FALSE, status |-> status,
     statusText |-> statusText, body |-> body]
HttpOk(json) ==
    [kind |-> "response", ok |-> TRUE, status |-> 200, statusText |-> "OK", json |-> json]
\* A success response whose body response.json() cannot deliver: it rejects with
\* an exception of the given name (SyntaxError for a body that is not JSON,
\* TypeError for a body that cannot be read).
HttpOkJsonRejects(name) ==
    [kind |-> "response", ok |-> TRUE, status |-> 200, statusText |-> "OK",
     jsonRejects |-> name]

\* An error body: its raw text, whether JSON.parse accepts it, and what it yields.
DiskFull == [raw |-> "{\"human_readable\":\"disk full\"}", parses |-> TRUE,
             parsed |-> [human_readable |-> "disk full"]]

\* The failures the pollers are exercised with.
PollFailures == {Thrown, HttpError(500, "Internal Server Error", DiskFull)}

errorTextRaw(body) == body.raw
\* The text ladder of a non-success response.
errorText(body) ==
    IF body.parses
    THEN IF "human_readable" \in DOMAIN body.parsed
         THEN body.parsed.human_readable
         ELSE body.pretty
    ELSE body.raw

\* makeRequest(method, path, data, showError) given what fetch produced:
\* [ok |-> TRUE, value] (resolved) or [ok |-> FALSE, error] (rejected).
makeRequest(method, path, response) ==
    IF response.kind = "throw"
    THEN [ok |-> FALSE,
          error |-> [method |-> method, path |-> path, text |-> "network error"]]
    ELSE IF ~response.ok
    THEN [ok |-> FALSE,
          error |-> [method |-> method, path |-> path, status |-> response.status,
                     statusText |-> response.statusText,
                     text |-> errorText(response.body)]]
    ELSE IF "jsonRejects" \in DOMAIN response
    THEN [ok |-> FALSE, error |-> [name |-> response.jsonRejects]]
    ELSE [ok |-> TRUE, value |-> response.json]

\* The rejection is the error record makeRequest builds (not an exception that
\* passed through it).
isErrorRecord(e) == "text" \in DOMAIN e

maybeShowErrorAlways(showError, outcome, slot) ==
    IF ~outcome.ok THEN outcome.error ELSE slot
\* maybeShowError: the closeable slot after a request issued with showError.  It
\* is called on the two paths that build the error record; a rejection of
\* response.json() leaves makeRequest without it.
maybeShowError(showError, outcome, slot) ==
    IF ~outcome.ok /\ isErrorRecord(outcome.error) /\ showError
    THEN outcome.error ELSE slot

getTorrentDetails(index, response) ==
    makeRequest("GET", "/torrents/" \o ToString(index), response)
getTorrentStats(index, response) ==
    makeRequest("GET", "/torrents/" \o ToString(index) \o "/stats", response)

----------------------------------------------------------------------------
(* Torrent: one component instance per torrent id in the list *)

errorInterval == 10000
liveInterval == 500
finishedInterval == 5000

\* The snapshot fields the client reads.
Stats(have, total) == [have_bytes |-> have, total_bytes |-> total]
defaultStats == Stats(0, 0)
StatsValues ==
    {Stats(p[1], p[2]) : p \in {q \in (0..MaxBytes) \X (0..MaxBytes) : q[1] <= q[2]}}

\* detailsResponse is compared by identity with defaultDetails; a fetched value
\* is never that object.
defaultDetails == "defaultDetails"
DetailsValues == {"detailsA", "detailsB"}

torrentIsDone(stats) == stats.have_bytes = stats.total_bytes

\* update's two handlers: the snapshot after a stats request's outcome
\* (updateStatsResponse(stats) on fulfilment, nothing on rejection).
updateStatsResponseMerging(outcome, current) ==
    IF outcome.ok THEN [current EXCEPT !.have_bytes = outcome.value.have_bytes]
    ELSE current
updateStatsResponse(outcome, current) ==
    IF outcome.ok THEN outcome.value ELSE current

\* update's two handlers: the next interval for a stats request's outcome.
updateFlat(outcome) == liveInterval
update(outcome) ==
    IF outcome.ok
    THEN IF torrentIsDone(outcome.value) THEN finishedInterval ELSE liveInterval
    ELSE errorInterval

\* The details effect's guard: detailsResponse === defaultDetails
detailsUnfetchedAlways(t) == TRUE
detailsUnfetched(t) == t.detailsResponse = defaultDetails

\* The details effect, run on mount and whenever detailsResponse changed: the
\* previous run's cleanup, then a new loop if the details are still the default.
detailsEffect(t) ==
    [t EXCEPT !.details = IF detailsUnfetched(t)
                          THEN [loopUntilSuccess EXCEPT !.inflight = t.details.inflight]
                          ELSE loopClear(t.details)]

\* A Torrent component as mounted: both effects have run.  Besides the
\* component's state and its two timers the record keeps two history fields:
\* lastPoll, how the last settled stats request ended ("none", "ok", "fail"), and
\* cancelledAt, where the stats scheduler stood when it was cancelled ("no":
\* not cancelled).
mountTorrent(id) ==
    detailsEffect(
        [id |-> id, mounted |-> TRUE,
         detailsResponse |-> defaultDetails, statsResponse |-> defaultStats,
         stats |-> customSetInterval(0),
         details |-> [timer |-> FALSE, inflight |-> 0],
         lastPoll |-> "none", cancelledAt |-> "no"])

\* The component unmounts: both effects' cleanups run.  cancelledAt records
\* whether a stats request was outstanding at that moment.
unmountTorrent(t) ==
    [t EXCEPT !.mounted = FALSE,
              !.stats = clearCustomInterval(@),
              !.details = loopClear(@),
              !.cancelledAt = IF t.stats.inflight > 0 THEN "inflight" ELSE "scheduled"]

Range(f) == {f[i] : i \in DOMAIN f}

\* Indices of the component instances the list currently renders.
Mounted == {i \in DOMAIN trk : trk[i].mounted}

\* The timer of instance i's stats scheduler fires: update() issues a stats request.
StatsFire(i) ==
    /\ trk[i].stats.timer
    /\ trk[i].stats.inflight < MaxInflight
    /\ trk' = [trk EXCEPT ![i].stats = executeCallbackBegin(@)]
    /\ UNCHANGED <<torrents, torrentsLoading, otherError, reg, regLast,
                   closeableError, uploadVars>>

\* A stats request of instance i settles: update's handler, then executeCallback
\* resumes.  React drops a state update of a component that has unmounted.
StatsResolve(i, response) ==
    /\ trk[i].stats.inflight > 0
    /\ LET outcome == getTorrentStats(trk[i].id, response)
       IN  /\ trk' = [trk EXCEPT
                  ![i].statsResponse =
                      IF trk[i].mounted THEN updateStatsResponse(outcome, @) ELSE @,
                  ![i].lastPoll = IF outcome.ok THEN "ok" ELSE "fail",
                  ![i].stats = executeCallbackEnd(@, update(outcome))]
           /\ closeableError' = maybeShowError(FALSE, outcome, closeableError)
    /\ UNCHANGED <<torrents, torrentsLoading, otherError, reg, regLast, uploadVars>>

\* The timer of instance i's details loop fires: the callback issues a details request.
DetailsFire(i) ==
    /\ trk[i].details.timer
    /\ trk[i].details.inflight < MaxInflight
    /\ trk' = [trk EXCEPT ![i].details = loopExecuteCallbackBegin(@)]
    /\ UNCHANGED <<torrents, torrentsLoading, otherError, reg, regLast,
                   closeableError, uploadVars>>

\* A details request of instance i settles: .then(updateDetailsResponse), the
\* loop's executeCallback resumes, and the details effect reruns if the state changed.
DetailsResolve(i, response) ==
    /\ trk[i].details.inflight > 0
    /\ LET outcome == getTorrentDetails(trk[i].id, response)
           applied == outcome.ok /\ trk[i].mounted
           t1 == [trk[i] EXCEPT
                     !.detailsResponse = IF applied THEN outcome.value ELSE @,
                     !.details = loopExecuteCallbackEnd(@, outcome.ok)]
           t2 == IF applied /\ t1.detailsResponse # trk[i].detailsResponse
                 THEN detailsEffect(t1) ELSE t1
       IN  /\ trk' = [trk EXCEPT ![i] = t2]
           /\ closeableError' = maybeShowError(FALSE, outcome, closeableError)
    /\ UNCHANGED <<torrents, torrentsLoading, otherError, reg, regLast, uploadVars>>

----------------------------------------------------------------------------
(* Root: the registry poller *)

refreshInterval == 500
refreshErrorInterval == 5000

\* The lists the server answers GET /torrents with (torrent ids, in order).
ListValues == {<<>>, <<1>>}

\* refreshTorrents: setTorrents(torrents.torrents) after a resolved request; a
\* rejected one throws past it.
refreshTorrentsBlanking(outcome, current) ==
    IF outcome.ok THEN Some(outcome.value) ELSE NULL
refreshTorrents(outcome, current) ==
    IF outcome.ok THEN Some(outcome.value) ELSE current

\* The callback of Root's customSetInterval: its returned interval.
registryInterval(outcome) ==
    IF outcome.ok THEN refreshInterval ELSE refreshErrorInterval

\* TorrentsList re-rendered with a list: instances whose key left the list
\* unmount, ids new to the list mount, in list order.
reconcile(tr, list) ==
    LET ids == IF list = NULL THEN {} ELSE Range(list[1])
        kept == [i \in DOMAIN tr |->
                    IF tr[i].mounted /\ tr[i].id \notin ids
                    THEN unmountTorrent(tr[i]) ELSE tr[i]]
        have == {tr[i].id : i \in {j \in DOMAIN tr : tr[j].mounted}}
        fresh == IF list = NULL THEN <<>>
                 ELSE SelectSeq(list[1], LAMBDA id : id \notin have)
    IN  kept \o [k \in 1..Len(fresh) |-> mountTorrent(fresh[k])]

\* The registry timer fires: refreshTorrents sets the loading flag and issues
\* the list request.
RegistryFire ==
    /\ reg.timer
    /\ reg.inflight < MaxInflight
    /\ reg' = executeCallbackBegin(reg)
    /\ torrentsLoading' = TRUE
    /\ UNCHANGED <<torrents, otherError, regLast, trk, closeableError, uploadVars>>

\* The registry callback's try/catch: setOtherError(null) after refreshTorrents
\* resolved, setOtherError(e) after it rejected.
otherErrorSticky(outcome, current) ==
    IF outcome.ok THEN current ELSE Some(outcome.error)
otherErrorAfterTick(outcome, current) ==
    IF outcome.ok THEN NULL ELSE Some(outcome.error)

\* The list request settles: finally clears the loading flag; on success the list
\* is replaced and the error slot cleared, on failure the error slot is set; the
\* scheduler re-arms with the returned interval.
RegistryResolve(response) ==
    /\ reg.inflight > 0
    /\ LET outcome == makeRequest("GET", "/torrents", response)
           list == refreshTorrents(outcome, torrents)
       IN  /\ Len(reconcile(trk, list)) <= MaxInst
           /\ torrentsLoading' = FALSE
           /\ torrents' = list
           /\ otherError' = otherErrorAfterTick(outcome, otherError)
           /\ reg' = executeCallbackEnd(reg, registryInterval(outcome))
           /\ regLast' = Some(outcome)
           /\ trk' = reconcile(trk, list)
           /\ closeableError' = maybeShowError(FALSE, outcome, closeableError)
    /\ UNCHANGED uploadVars

StatsResponses == {HttpOk(v) : v \in StatsValues} \cup PollFailures
DetailsResponses == {HttpOk(v) : v \in DetailsValues} \cup PollFailures
ListResponses == {HttpOk(v) : v \in ListValues} \cup PollFailures

\* After construction: Root has mounted, its effect has armed the registry timer.
PollInit ==
    /\ torrents = NULL
    /\ torrentsLoading = FALSE
    /\ otherError = NULL
    /\ reg = customSetInterval(refreshInterval)
    /\ regLast = NULL
    /\ trk = <<>>

UploadIdle ==
    /\ data = NULL
    /\ fileList = NULL
    /\ loading = FALSE
    /\ selectedFiles = <<>>
    /\ uploading = FALSE
    /\ uploadError = NULL
    /\ previewTimer = NULL
    /\ previews = <<>>
    /\ confirms = <<>>
    /\ payloadsSet = 0
    /\ previewLog = <<>>

\* No call of makeRequest is singled out.
RequestIdle == call = NULL /\ result = NULL

Init == PollInit /\ UploadIdle /\ closeableError = NULL /\ RequestIdle

Next ==
    /\ \/ RegistryFire
       \/ \E r \in ListResponses : RegistryResolve(r)
       \/ \E i \in DOMAIN trk : StatsFire(i)
       \/ \E i \in DOMAIN trk : \E r \in StatsResponses : StatsResolve(i, r)
       \/ \E i \in DOMAIN trk : DetailsFire(i)
       \/ \E i \in DOMAIN trk : \E r \in DetailsResponses : DetailsResolve(i, r)
    /\ UNCHANGED reqVars

Spec == Init /\ [][Next]_vars

\* The event loop runs every timer that stays armed: an armed registry timer and
\* an armed stats timer eventually fire.  Nothing is assumed about when, or
\* whether, the server answers a request.
RegistryTimerFires == RegistryFire /\ UNCHANGED reqVars
StatsTimerFires(i) == i \in DOMAIN trk /\ StatsFire(i) /\ UNCHANGED reqVars
TimersFire ==
    /\ WF_vars(RegistryTimerFires)
    /\ \A i \in 1..MaxInst : WF_vars(StatsTimerFires(i))

\* The steps of the two schedulers.  The details loop shares no state with them
\* (it reads and writes only details and detailsResponse), so its steps are left
\* out where only the schedulers' progress is in question.
SchedulerNext ==
    /\ \/ RegistryFire
       \/ \E r \in ListResponses : RegistryResolve(r)
       \/ \E i \in DOMAIN trk : StatsFire(i)
       \/ \E i \in DOMAIN trk : \E r \in StatsResponses : StatsResolve(i, r)
    /\ UNCHANGED reqVars

SpecLive == Init /\ [][SchedulerNext]_vars /\ TimersFire

----------------------------------------------------------------------------
(* UploadButton and FileSelectionModal: preview, selection, confirm *)

\* Decimal digits, and Number.prototype.toString for a natural number.
Digits == <<"0", "1", "2", "3", "4", "5", "6", "7", "8", "9">>
RECURSIVE numberToString(_)
numberToString(n) ==
    IF n < 10 THEN <<Digits[n + 1]>>
    ELSE numberToString(n \div 10) \o <<Digits[(n % 10) + 1]>>

\* Array.prototype.join(','): the elements' strings with a comma between them,
\* as a sequence of characters.
RECURSIVE join(_)
RECURSIVE joinOneBased(_)
joinOneBased(a) ==
    IF a = <<>> THEN <<>>
    ELSE IF Len(a) = 1 THEN numberToString(a[1] + 1)
    ELSE numberToString(a[1] + 1) \o <<",">> \o joinOneBased(Tail(a))
join(a) ==
    IF a = <<>> THEN <<>>
    ELSE IF Len(a) = 1 THEN numberToString(a[1])
    ELSE numberToString(a[1]) \o <<",">> \o join(Tail(a))

\* A manifest as the preview of payload p returns it: n files.
Manifest(p, n) == [payload |-> p, files |-> [k \in 1..n |-> "file" \o ToString(k - 1)]]

\* (fileList || []).map((_, id) => id): the zero-based indices of the manifest.
fileIndices(list) ==
    IF list = NULL THEN <<>> ELSE [k \in 1..Len(list[1].files) |-> k - 1]

\* handleToggleFile(fileIndex)
handleToggleFile(selected, fileIndex) ==
    IF fileIndex \in Range(selected)
    THEN SelectSeq(selected, LAMBDA index : index # fileIndex)
    ELSE Append(selected, fileIndex)

\* allPresent of getSelectedFilesQueryParam: every index of fileList is selected.
allPresentInOrder(list, selected) == selected = fileIndices(list)
allPresent(list, selected) ==
    \A id \in Range(fileIndices(list)) : id \in Range(selected)

\* getSelectedFilesQueryParam(), as a sequence of strings and characters.
getSelectedFilesQueryParam(list, selected) ==
    IF allPresent(list, selected) THEN <<>>
    ELSE <<"&only_files=">> \o join(selected)

\* The url of handleUpload.
uploadUrl(list, selected) ==
    <<"/torrents?overwrite=true">> \o getSelectedFilesQueryParam(list, selected)

confirmDisabledUnlessBusy == loading \/ uploading
\* The OK button's disabled attribute.
confirmDisabled == loading \/ uploading \/ Len(selectedFiles) = 0

\* The modal is shown: showModal = data !== null
showModal == data # NULL

ClearKeepingPayload ==
    /\ data' = data
    /\ fileList' = NULL
    /\ loading' = FALSE
    /\ previewTimer' = previewTimer
    /\ selectedFiles' = IF fileList # NULL THEN fileIndices(NULL) ELSE selectedFiles

\* UploadButton.clear with the effects its state changes trigger: the preview
\* effect's cleanup clears the pending timer, the selection effect resets the
\* selection when fileList changed.
Clear ==
    /\ data' = NULL
    /\ fileList' = NULL
    /\ loading' = FALSE
    /\ previewTimer' = IF data # NULL THEN NULL ELSE previewTimer
    /\ selectedFiles' = IF fileList # NULL THEN fileIndices(NULL) ELSE selectedFiles

\* The user supplies a payload while no dialog is open (the open modal covers
\* the buttons): setMagnet / setFile, and the preview effect arms its timer.
SetData ==
    /\ data = NULL
    /\ payloadsSet < MaxPayloads
    /\ payloadsSet' = payloadsSet + 1
    /\ data' = Some(payloadsSet + 1)
    /\ previewTimer' = Some(payloadsSet + 1)
    /\ UNCHANGED <<fileList, loading, selectedFiles, uploading, uploadError,
                   previews, confirms, previewLog, closeableError, pollVars>>

\* The preview timer fires: the preview request for the effect's payload is issued.
PreviewFire ==
    /\ previewTimer # NULL
    /\ previews' = Append(previews, previewTimer[1])
    /\ previewLog' = Append(previewLog, previewTimer[1])
    /\ previewTimer' = NULL
    /\ UNCHANGED <<data, fileList, loading, selectedFiles, uploading, uploadError,
                   confirms, payloadsSet, closeableError, pollVars>>

RemoveAt(q, k) == [j \in 1..(Len(q) - 1) |-> IF j < k THEN q[j] ELSE q[j + 1]]

previewPath == "/torrents?list_only=true&overwrite=true"

\* The k-th outstanding preview request settles: setFileList (and the selection
\* effect) on success, clear() on failure, setLoading(false) either way.
PreviewResolve(k, response) ==
    /\ k \in DOMAIN previews
    /\ previews' = RemoveAt(previews, k)
    /\ LET outcome == makeRequest("POST", previewPath, response)
       IN  /\ closeableError' = maybeShowError(TRUE, outcome, closeableError)
           /\ IF outcome.ok
              THEN /\ fileList' = Some(outcome.value)
                   /\ selectedFiles' = fileIndices(Some(outcome.value))
                   /\ loading' = FALSE
                   /\ UNCHANGED <<data, previewTimer>>
              ELSE Clear
    /\ UNCHANGED <<uploading, uploadError, confirms, payloadsSet, previewLog, pollVars>>

\* The user cancels or closes the dialog: onHide = clear.
Cancel ==
    /\ showModal
    /\ Clear
    /\ UNCHANGED <<uploading, uploadError, previews, confirms, payloadsSet,
                   previewLog, closeableError, pollVars>>

\* The user toggles the checkbox of a listed file.
Toggle(fileIndex) ==
    /\ showModal
    /\ ~loading
    /\ fileIndex \in Range(fileIndices(fileList))
    /\ selectedFiles' = handleToggleFile(selectedFiles, fileIndex)
    /\ UNCHANGED <<data, fileList, loading, uploading, uploadError, previewTimer,
                   previews, confirms, payloadsSet, previewLog, closeableError, pollVars>>

\* The user presses OK: handleUpload issues the confirm request.
handleUpload ==
    /\ showModal
    /\ ~confirmDisabled
    /\ confirms' = Append(confirms, [url |-> uploadUrl(fileList, selectedFiles),
                                     data |-> data[1]])
    /\ UNCHANGED <<data, fileList, loading, selectedFiles, uploading, uploadError,
                   previewTimer, previews, payloadsSet, previewLog, closeableError,
                   pollVars>>

\* OK pressed while fewer than MaxConfirms confirm requests are outstanding.
Confirm == Len(confirms) < MaxConfirms /\ handleUpload

\* handleUpload's rejection handler: setUploadError(e).
handleUploadRejectedSilently(e) == NULL
handleUploadRejected(e) == Some(e)

\* The k-th outstanding confirm request settles: onHide() on success,
\* setUploadError(e) on failure.
ConfirmResolve(k, response) ==
    /\ k \in DOMAIN confirms
    /\ confirms' = RemoveAt(confirms, k)
    /\ LET outcome == makeRequest("POST", confirms[k].url, response)
       IN  /\ closeableError' = maybeShowError(FALSE, outcome, closeableError)
           /\ IF outcome.ok
              THEN Clear /\ UNCHANGED uploadError
              ELSE /\ uploadError' = handleUploadRejected(outcome.error)
                   /\ UNCHANGED <<data, fileList, loading, selectedFiles, previewTimer>>
    /\ UNCHANGED <<uploading, previews, payloadsSet, previewLog, pollVars>>

\* The user dismisses the closeable banner: setCloseableError(null).
DismissError ==
    /\ closeableError # NULL
    /\ closeableError' = NULL
    /\ UNCHANGED <<uploadVars, pollVars>>

UploadFailures == {Thrown, HttpError(500, "Internal Server Error", DiskFull)}
PreviewResponses(p) == {HttpOk(Manifest(p, n)) : n \in 0..MaxManifest} \cup UploadFailures
ConfirmResponses == {HttpOk("created")} \cup UploadFailures

UploadInit == PollInit /\ UploadIdle /\ closeableError = NULL /\ RequestIdle

UploadNext ==
    /\ \/ SetData
       \/ PreviewFire
       \/ \E k \in DOMAIN previews :
             \E r \in PreviewResponses(previews[k]) : PreviewResolve(k, r)
       \/ Cancel
       \/ \E f \in 0..(MaxManifest - 1) : Toggle(f)
       \/ Confirm
       \/ \E k \in DOMAIN confirms : \E r \in ConfirmResponses : ConfirmResolve(k, r)
       \/ DismissError
    /\ UNCHANGED reqVars

\* The upload dialog's whole workflow.
SpecUpload == UploadInit /\ [][UploadNext]_vars

\* The dialog's workflow with OK pressed again while confirm requests are
\* outstanding: one more of them than in UploadNext.
ResubmitNext ==
    /\ \/ SetData
       \/ PreviewFire
       \/ \E k \in DOMAIN previews :
             \E r \in PreviewResponses(previews[k]) : PreviewResolve(k, r)
       \/ Cancel
       \/ \E f \in 0..(MaxManifest - 1) : Toggle(f)
       \/ Len(confirms) <= MaxConfirms /\ handleUpload
       \/ \E k \in DOMAIN confirms : \E r \in ConfirmResponses : ConfirmResolve(k, r)
       \/ DismissError
    /\ UNCHANGED reqVars

SpecResubmit == UploadInit /\ [][ResubmitNext]_vars

\* The dialog once the preview of the first payload has returned a manifest:
\* the state reached by SetData, PreviewFire and a successful PreviewResolve.
SelectionInit ==
    /\ PollInit
    /\ RequestIdle
    /\ closeableError = NULL
    /\ data = Some(1)
    /\ payloadsSet = 1
    /\ previewLog = <<1>>
    /\ \E n \in 0..MaxFiles :
          /\ fileList = Some(Manifest(1, n))
          /\ selectedFiles = fileIndices(Some(Manifest(1, n)))
    /\ loading = FALSE
    /\ uploading = FALSE
    /\ uploadError = NULL
    /\ previewTimer = NULL
    /\ previews = <<>>
    /\ confirms = <<>>

SelectionNext ==
    /\ \/ \E f \in 0..(MaxFiles - 1) : Toggle(f)
       \/ Confirm
       \/ \E k \in DOMAIN confirms : ConfirmResolve(k, HttpOk("created"))
    /\ UNCHANGED reqVars

\* Selection and confirm over manifests of up to MaxFiles files; a confirm
\* request stays outstanding or succeeds.
SpecSelection == SelectionInit /\ [][SelectionNext]_vars

----------------------------------------------------------------------------
(* One call of makeRequest, from any of the program's call sites *)

\* Error bodies of the three kinds the text ladder tells apart.  A body that
\* parses is a JSON object; pretty is what JSON.stringify(json, null, 2) gives.
NoSuchTorrent ==
    [raw |-> "{\"error\":\"no such torrent\"}", parses |-> TRUE,
     parsed |-> [error |-> "no such torrent"],
     pretty |-> "{\n  \"error\": \"no such torrent\"\n}"]
BadGateway == [raw |-> "<html>Bad Gateway</html>", parses |-> FALSE]
\* An empty body: JSON.parse("") throws.
EmptyBody == [raw |-> "", parses |-> FALSE]
ErrorBodies == {DiskFull, NoSuchTorrent, BadGateway, EmptyBody}

\* What fetch can produce for a call.
FetchResults ==
    {Thrown, HttpOk("result"), HttpOkJsonRejects("SyntaxError"),
     HttpOkJsonRejects("TypeError")}
        \cup {HttpError(404, "Not Found", b) : b \in ErrorBodies}
        \cup {HttpError(500, "Internal Server Error", b) : b \in ErrorBodies}

\* The calls of makeRequest in the program, with the showError each passes.
CallSites ==
    {[site |-> "refreshTorrents", method |-> "GET", path |-> "/torrents",
      showError |-> FALSE],
     [site |-> "getTorrentDetails", method |-> "GET", path |-> "/torrents/1",
      showError |-> FALSE],
     [site |-> "getTorrentStats", method |-> "GET", path |-> "/torrents/1/stats",
      showError |-> FALSE],
     [site |-> "preview", method |-> "POST", path |-> previewPath,
      showError |-> TRUE],
     [site |-> "handleUpload", method |-> "POST", path |-> "/torrents?overwrite=true",
      showError |-> FALSE]}

\* makeRequest is called; fetch is awaited.
Issue(c) ==
    /\ call = NULL
    /\ call' = Some(c)
    /\ UNCHANGED <<result, closeableError, pollVars, uploadVars>>

\* fetch produced response: the call settles and may show its error.
Settle(response) ==
    /\ call # NULL
    /\ LET c == call[1]
           outcome == makeRequest(c.method, c.path, response)
       IN  /\ result' = Some([call |-> c, response |-> response, outcome |-> outcome])
           /\ closeableError' = maybeShowError(c.showError, outcome, closeableError)
    /\ call' = NULL
    /\ UNCHANGED <<pollVars, uploadVars>>

RequestNext ==
    \/ \E c \in CallSites : Issue(c)
    \/ \E r \in FetchResults : Settle(r)
    \/ DismissError /\ UNCHANGED reqVars

SpecRequest == Init /\ [][RequestNext]_vars

----------------------------------------------------------------------------
(* The schedulers *)

\* The responses with which a request fails.
Failing(responses) == {r \in responses : r.kind = "throw" \/ ~r.ok}

FailingStats == Failing(StatsResponses)
FailingDetails == Failing(DetailsResponses)
FailingList == Failing(ListResponses)
FailingFetch == Failing(FetchResults)

\* In this step a stats request or a details request of instance i settles, or
\* the list request settles: the scheduler has one outstanding callback fewer.
StatsSettles(i) == trk'[i].stats.inflight < trk[i].stats.inflight
DetailsSettles(i) == trk'[i].details.inflight < trk[i].details.inflight
RegistrySettles == reg'.inflight < reg.inflight

\* C1: in every reachable state, each customSetInterval instance (the registry
\* poller's and every torrent's stats scheduler) has at most one invocation of
\* its callback in flight.
C1_AtMostOneInFlight ==
    /\ reg.inflight <= 1
    /\ \A i \in DOMAIN trk : trk[i].stats.inflight <= 1

\* A later invocation is in flight after an earlier one has resolved.
C1_Witness ==
    \E i \in DOMAIN trk :
        /\ trk[i].stats.inflight = 1
        /\ trk[i].lastPoll = "ok"
        /\ reg.inflight = 1

\* C2 (as claimed): once a tracker was torn down with a stats request in flight,
\* no step issues another stats request for it or changes its snapshot.
C2_NoRequestAfterTeardown ==
    [][\A i \in DOMAIN trk :
          (~trk[i].mounted /\ trk[i].cancelledAt = "inflight")
              => /\ trk'[i].stats.inflight <= trk[i].stats.inflight
                 /\ trk'[i].statsResponse = trk[i].statsResponse]_vars

\* C3: a stats scheduler cancelled while its next invocation was scheduled and
\* not yet fired has no armed timer and no invocation in flight, in every
\* state from then on.
C3_CancelledScheduledNeverRuns ==
    \A i \in DOMAIN trk :
        trk[i].cancelledAt = "scheduled"
            => ~trk[i].stats.timer /\ trk[i].stats.inflight = 0

\* A scheduler that had polled was cancelled between two invocations.
C3_Witness ==
    \E i \in DOMAIN trk :
        /\ trk[i].cancelledAt = "scheduled"
        /\ trk[i].lastPoll # "none"

\* C4 (as claimed): a details loop that was not cancelled and whose operation
\* has not yet succeeded always has its next invocation scheduled or in flight.
C4_RetriesUntilSuccess ==
    \A i \in DOMAIN trk :
        (trk[i].mounted /\ trk[i].detailsResponse = defaultDetails)
            => (trk[i].details.timer \/ trk[i].details.inflight > 0)

\* C5: from a state in which a tracked torrent's details have been fetched, no
\* step changes the stored details, issues a details request or arms the
\* details timer.
C5_DetailsFetchedOnce ==
    [][\A i \in DOMAIN trk :
          (trk[i].mounted /\ trk[i].detailsResponse # defaultDetails)
              => /\ trk'[i].detailsResponse = trk[i].detailsResponse
                 /\ trk'[i].details.inflight = 0
                 /\ ~trk'[i].details.timer]_vars

\* Details are fetched and stats polls have gone on since.
C5_Witness ==
    \E i \in DOMAIN trk :
        /\ trk[i].mounted
        /\ trk[i].detailsResponse # defaultDetails
        /\ trk[i].lastPoll = "fail"
        /\ trk[i].statsResponse # defaultStats

\* C6: after every stats poll of a tracked torrent, the interval the next poll
\* is armed with is 10000 after a failure, 5000 after a success with
\* have_bytes = total_bytes, and 500 after any other success.
C6_StatsIntervalPolicy ==
    \A i \in DOMAIN trk :
        (trk[i].mounted /\ trk[i].lastPoll # "none")
            => trk[i].stats.currentInterval =
                   IF trk[i].lastPoll = "fail" THEN 10000
                   ELSE IF trk[i].statsResponse.have_bytes
                            = trk[i].statsResponse.total_bytes
                        THEN 5000 ELSE 500

\* A failed poll follows a successful poll of a complete torrent.
C6_Witness ==
    \E i \in DOMAIN trk :
        /\ trk[i].mounted
        /\ trk[i].lastPoll = "fail"
        /\ trk[i].statsResponse = Stats(1, 1)
        /\ trk[i].stats.timer

\* C7: every step that completes a registry tick either succeeded, and then the
\* list is the returned list and the timer is armed with 500, or failed, and
\* then the list is unchanged and the timer is armed with 5000.
C7_RegistryTickPolicy ==
    [][reg'.inflight < reg.inflight
          => /\ reg'.timer
             /\ IF regLast'[1].ok
                THEN torrents' = Some(regLast'[1].value)
                     /\ reg'.currentInterval = 500
                ELSE torrents' = torrents
                     /\ reg'.currentInterval = 5000]_vars

\* A failed tick has left a non-empty list in place.
C7_Witness ==
    /\ regLast # NULL
    /\ ~regLast[1].ok
    /\ torrents = Some(<<1>>)
    /\ reg.currentInterval = 5000
    /\ reg.timer

----------------------------------------------------------------------------
(* The upload dialog *)

\* The number a decimal digit stands for.
digitValue(c) == CHOOSE d \in 0..9 : Digits[d + 1] = c

\* The numbers of a comma-separated list of decimal numbers, read left to right.
RECURSIVE parseCsv(_, _, _)
parseCsv(chars, done, cur) ==
    IF chars = <<>> THEN done \o cur
    ELSE IF Head(chars) = "," THEN parseCsv(Tail(chars), done \o cur, <<>>)
    ELSE parseCsv(Tail(chars), done,
                  <<(IF cur = <<>> THEN 0 ELSE cur[1]) * 10 + digitValue(Head(chars))>>)

\* The elements of a set of numbers in ascending order.
RECURSIVE ascending(_)
ascending(S) ==
    IF S = {} THEN <<>>
    ELSE LET m == CHOOSE x \in S : \A y \in S : x <= y
         IN  <<m>> \o ascending(S \ {m})

\* This step issues a confirm request; its url.
ConfirmIssued == Len(confirms') > Len(confirms)
\* In this step a confirm request, or a preview request, settles.
ConfirmSettles == Len(confirms') < Len(confirms)
PreviewSettles == Len(previews') < Len(previews)
FailingConfirm == Failing(ConfirmResponses)
issuedUrl == confirms'[Len(confirms')].url

SelectionIsFull == Range(selectedFiles) = Range(fileIndices(fileList))

\* C8 (as claimed): a confirm with a selection that is not the whole manifest
\* sends only_files with the selected indices comma-joined in ascending order.
C8_OnlyFilesAscending ==
    [][(ConfirmIssued /\ ~SelectionIsFull)
          => /\ Len(issuedUrl) > 2
             /\ issuedUrl[1] = "/torrents?overwrite=true"
             /\ issuedUrl[2] = "&only_files="
             /\ parseCsv(SubSeq(issuedUrl, 3, Len(issuedUrl)), <<>>, <<>>)
                    = ascending(Range(selectedFiles))]_vars

\* C8 (amended): a confirm with a selection that is not the whole manifest
\* sends only_files with exactly the selected indices, each once, comma-joined
\* in the order the selection list holds them.
C8_OnlyFilesInSelectionOrder ==
    [][(ConfirmIssued /\ ~SelectionIsFull)
          => /\ Len(issuedUrl) > 2
             /\ issuedUrl[1] = "/torrents?overwrite=true"
             /\ issuedUrl[2] = "&only_files="
             /\ LET listed == parseCsv(SubSeq(issuedUrl, 3, Len(issuedUrl)), <<>>, <<>>)
                IN  /\ listed = selectedFiles
                    /\ Cardinality(Range(listed)) = Len(listed)
                    /\ Range(listed) \subseteq Range(fileIndices(fileList))]_vars

\* A confirm request went out for the selection 2, 0 of a three-file manifest:
\* 0 was deselected and selected again.
C8_Witness ==
    \E k \in DOMAIN confirms :
        /\ confirms[k].url = <<"/torrents?overwrite=true", "&only_files=", "2", ",", "0">>
        /\ Len(fileIndices(fileList)) = 3

\* C9: a confirm with every index of the manifest selected sends no only_files
\* parameter, whatever the order of the selection list.
C9_FullSelectionNoFilter ==
    [][(ConfirmIssued /\ SelectionIsFull)
          => issuedUrl = <<"/torrents?overwrite=true">>]_vars

\* A confirm request without filter is outstanding and the full selection is
\* held out of order: files were deselected and selected again.
C9_Witness ==
    /\ confirms # <<>>
    /\ confirms[1].url = <<"/torrents?overwrite=true">>
    /\ selectedFiles = <<1, 2, 0>>
    /\ Len(fileIndices(fileList)) = 3

\* C10 (as claimed): while the preview request of the current payload is
\* outstanding, the OK button is disabled.
C10_ConfirmDisabledDuringPreview ==
    (showModal /\ \E k \in DOMAIN previews : previews[k] = data[1])
        => confirmDisabled

\* C11 (as claimed): every confirm request submits the current payload with a
\* selection taken from the manifest that the preview of that same payload
\* returned; a manifest of an earlier payload is never the one submitted.
C11_ConfirmUsesOwnManifest ==
    [][ConfirmIssued
          => /\ fileList # NULL
             /\ fileList[1].payload = data[1]
             /\ confirms'[Len(confirms')].data = data[1]
             /\ Range(selectedFiles) \subseteq Range(fileIndices(fileList))]_vars

\* C12: no confirm request is issued while the selection is empty, and with an
\* empty selection the OK button is disabled.
C12_NoConfirmWithEmptySelection ==
    [][/\ ConfirmIssued => Len(selectedFiles) > 0
       /\ (showModal /\ Len(selectedFiles) = 0) => ~ENABLED Confirm]_vars

\* The dialog shows a manifest with files and the user has deselected them all.
C12_Witness ==
    /\ showModal
    /\ fileList # NULL
    /\ Len(fileIndices(fileList)) > 0
    /\ selectedFiles = <<>>
    /\ Len(confirms) < MaxConfirms

\* The registry scheduler, or the stats scheduler of a mounted instance, has not
\* invoked its callback yet.
RegistryNotYetInvoked == regLast = NULL /\ reg.inflight = 0
StatsNotYetInvoked(i) ==
    trk[i].mounted /\ trk[i].lastPoll = "none" /\ trk[i].stats.inflight = 0

\* C14 (as claimed): every scheduler, the registry's and each stats scheduler,
\* is constructed with its first invocation armed at delay 0.
C14_FirstInvocationImmediate ==
    /\ RegistryNotYetInvoked => (reg.timer /\ reg.currentInterval = 0)
    /\ \A i \in DOMAIN trk :
          StatsNotYetInvoked(i) => (trk[i].stats.timer /\ trk[i].stats.currentInterval = 0)

\* C14 (amended): every scheduler is constructed with its first invocation armed
\* at the delay it was given: 0 for each stats scheduler, 500 for the registry's.
C14_FirstInvocationAtGivenDelay ==
    /\ RegistryNotYetInvoked => (reg.timer /\ reg.currentInterval = refreshInterval)
    /\ \A i \in DOMAIN trk :
          StatsNotYetInvoked(i) => (trk[i].stats.timer /\ trk[i].stats.currentInterval = 0)

\* An instance has just mounted: its stats scheduler is armed and has not fired.
C14_Witness ==
    \E i \in DOMAIN trk :
        StatsNotYetInvoked(i) /\ trk[i].stats.timer /\ trk[i].stats.currentInterval = 0

\* C18: a successful stats poll replaces the displayed snapshot of its task by
\* the fetched one, whole; a failed stats poll leaves the displayed snapshot as
\* it was.
C18_SnapshotReplacedOrKept ==
    [][\A i \in DOMAIN trk :
          (trk[i].mounted /\ StatsSettles(i)) =>
              /\ \A r \in StatsResponses \ FailingStats :
                    StatsResolve(i, r) => trk'[i].statsResponse = r.json
              /\ \A r \in FailingStats :
                    StatsResolve(i, r) => trk'[i].statsResponse = trk[i].statsResponse]_vars

\* A mounted instance shows a fetched snapshot and its latest stats poll failed.
C18_Witness ==
    \E i \in DOMAIN trk :
        /\ trk[i].mounted
        /\ trk[i].lastPoll = "fail"
        /\ trk[i].statsResponse # defaultStats

\* C19: once a registry tick has completed, the registry error slot is
\* non-empty exactly if the latest completed tick failed, and then it holds that
\* tick's error; a later successful tick leaves it empty.
C19_RegistryErrorTracksLastTick ==
    /\ regLast = NULL => otherError = NULL
    /\ regLast # NULL =>
          /\ otherError # NULL <=> ~regLast[1].ok
          /\ ~regLast[1].ok => otherError = Some(regLast[1].error)

\* The latest registry tick failed and its error is in the slot.
C19_Witness ==
    /\ regLast # NULL
    /\ ~regLast[1].ok
    /\ otherError = Some(regLast[1].error)
    /\ reg.inflight = 0

\* The registry has completed a tick and none is outstanding (Loaded or
\* Errored); instance i is mounted, has completed a stats poll and none is
\* outstanding.
RegistryBetweenTicks == regLast # NULL /\ reg.inflight = 0
StatsBetweenPolls(i) ==
    /\ i \in DOMAIN trk
    /\ trk[i].mounted
    /\ trk[i].lastPoll # "none"
    /\ trk[i].stats.inflight = 0
StatsPollingOrUnmounted(i) ==
    i \in DOMAIN trk /\ (~trk[i].mounted \/ trk[i].stats.inflight > 0)

----------------------------------------------------------------------------
(* The request client *)

C15_FailureShownOnlyOnRequest ==
    [][/\ \A i \in DOMAIN trk :
            StatsSettles(i) =>
                \A r \in FailingStats :
                    StatsResolve(i, r)
                        => /\ closeableError' = closeableError
                           /\ otherError' = otherError
                           /\ trk'[i].lastPoll = "fail"
                           /\ trk'[i].stats.currentInterval = errorInterval
       /\ \A i \in DOMAIN trk :
            DetailsSettles(i) =>
                \A r \in FailingDetails :
                    DetailsResolve(i, r)
                        => /\ closeableError' = closeableError
                           /\ otherError' = otherError
                           /\ trk'[i].detailsResponse = trk[i].detailsResponse
       /\ RegistrySettles =>
            \A r \in FailingList :
                RegistryResolve(r)
                    => /\ closeableError' = closeableError
                       /\ ~regLast'[1].ok
                       /\ otherError' = Some(regLast'[1].error)
       /\ \A k \in DOMAIN previews : \A r \in Failing(PreviewResponses(previews[k])) :
            PreviewResolve(k, r)
                => closeableError' = makeRequest("POST", previewPath, r).error
       /\ \A k \in DOMAIN confirms : \A r \in Failing(ConfirmResponses) :
            ConfirmResolve(k, r)
                => /\ closeableError' = closeableError
                   /\ uploadError' = Some(makeRequest("POST", confirms[k].url, r).error)
       /\ call # NULL =>
            \A r \in FailingFetch :
                Settle(r)
                    => /\ ~result'[1].outcome.ok
                       /\ closeableError' # closeableError => call[1].showError
                       /\ call[1].showError => closeableError' = result'[1].outcome.error
                       /\ call[1].site \in {"refreshTorrents", "getTorrentDetails",
                                            "getTorrentStats"}
                              => closeableError' = closeableError]_vars

\* A stats poll of a mounted instance has failed while both error slots are empty.
C15_Witness ==
    /\ closeableError = NULL
    /\ otherError = NULL
    /\ \E i \in DOMAIN trk :
          /\ trk[i].mounted
          /\ trk[i].lastPoll = "fail"
          /\ trk[i].stats.currentInterval = errorInterval

\* How many preview requests have been issued for payload p.
PreviewsIssuedFor(p) == Cardinality({j \in DOMAIN previewLog : previewLog[j] = p})

\* A failing preview clears the payload, dismisses the dialog and is not retried.
PreviewFailureClears ==
    PreviewSettles =>
    \A k \in DOMAIN previews : \A r \in UploadFailures :
        PreviewResolve(k, r)
            => /\ data' = NULL
               /\ ~showModal'
               /\ fileList' = NULL
               /\ previewTimer' = NULL
               /\ previews' = RemoveAt(previews, k)
               /\ previewLog' = previewLog

\* C16 (as claimed): a failed preview clears the payload, dismisses the dialog
\* and is not retried, and exactly one preview request is issued for every
\* payload that is set (it is issued once the deferred start is no longer pending).
C16_ExactlyOnePreviewPerPayload ==
    [][/\ PreviewFailureClears
       /\ \A p \in 1..payloadsSet :
             PreviewsIssuedFor(p) = 1 \/ (PreviewsIssuedFor(p) = 0 /\ previewTimer = Some(p))]_vars

\* C16 (amended): a failed preview clears the payload, dismisses the dialog and
\* is not retried, and at most one preview request is issued for every payload
\* that is set: none if the payload was cleared before the deferred start ran.
C16_AtMostOnePreviewPerPayload ==
    [][/\ PreviewFailureClears
       /\ \A p \in 1..payloadsSet :
             \/ PreviewsIssuedFor(p) = 1 /\ previewTimer # Some(p)
             \/ PreviewsIssuedFor(p) = 0 /\ (previewTimer = Some(p) \/ data # Some(p))]_vars

\* The preview of the payload in the dialog has failed: the dialog is gone, the
\* error is in the closeable slot and nothing is pending or outstanding.
C16_Witness ==
    /\ payloadsSet > 0
    /\ PreviewsIssuedFor(payloadsSet) = 1
    /\ data = NULL
    /\ previewTimer = NULL
    /\ previews = <<>>
    /\ closeableError # NULL
    /\ closeableError.path = previewPath

\* C17: a confirm request that succeeds closes the dialog and clears the
\* payload; one that fails leaves the dialog, payload, manifest and selection as
\* they were and puts its error in the dialog's error slot, so OK and Cancel
\* stay as available as before.
C17_ConfirmOutcome ==
    [][ConfirmSettles =>
       /\ \A k \in DOMAIN confirms : \A r \in ConfirmResponses \ FailingConfirm :
            ConfirmResolve(k, r)
                => /\ data' = NULL
                   /\ ~showModal'
                   /\ fileList' = NULL
       /\ \A k \in DOMAIN confirms : \A r \in FailingConfirm :
            ConfirmResolve(k, r)
                => /\ data' = data
                   /\ showModal' = showModal
                   /\ fileList' = fileList
                   /\ selectedFiles' = selectedFiles
                   /\ uploadError' = Some(makeRequest("POST", confirms[k].url, r).error)
                   /\ ~loading'
                   /\ confirmDisabled' = confirmDisabled]_vars

\* A confirm request has failed and the dialog is still open with its manifest
\* and selection, the error in its slot and OK enabled.
C17_Witness ==
    /\ showModal
    /\ fileList # NULL
    /\ Len(selectedFiles) > 0
    /\ uploadError # NULL
    /\ confirms = <<>>
    /\ ~confirmDisabled

\* C21 (as claimed): whenever makeRequest rejects, whatever fetch produced, the
\* rejection is an error record carrying the call's method and path and a
\* non-empty text.
C21_EveryFailureIsErrorRecord ==
    (result # NULL /\ ~result[1].outcome.ok) =>
        LET e == result[1].outcome.error
            c == result[1].call
        IN  /\ {"method", "path", "text"} \subseteq DOMAIN e
            /\ e.method = c.method
            /\ e.path = c.path
            /\ e.text # ""

\* C22 (as claimed): at most one confirm request is outstanding per open
\* dialog: no confirm request is issued while one issued for the same payload
\* is still in flight.
C22_OneConfirmOutstanding ==
    [][ConfirmIssued => \A k \in DOMAIN confirms : confirms[k].data # data[1]]_vars

\* C23 (as claimed): the dialog's confirm error belongs to the current dialog
\* only: it is gone once the dialog closes (by cancel or by a successful
\* confirm), and a dialog opening for a new payload shows none.
C23_ConfirmErrorOfCurrentDialog ==
    [][/\ (showModal /\ ~showModal') => uploadError' = NULL
       /\ (~showModal /\ showModal') => uploadError' = NULL]_vars

====
